---- MODULE Spec2Model ----
(***************************************************************************)
(* Model of groauto_script.py: the template writer write_mdp_files, the    *)
(* command runner run_step and the module-level pipeline that prompts for  *)
(* three inputs, writes five .mdp files and runs the gmx_mpi commands.     *)
(*                                                                         *)
(* Text (console input, formatted values, file names) is a sequence of     *)
(* one-character strings, except that the fixed parts of file names and    *)
(* of .mdp lines are kept as whole tokens.  Python floats are IEEE-754     *)
(* doubles [m, e] standing for m * 2^e, with m a little-endian sequence of *)
(* limbs, so that float() and the float product round as CPython does.      *)
(***************************************************************************)
EXTENDS Integers, Sequences, FiniteSets, TLC

\* ------------------------------------------------------------------ bounds
\* Longest text typed at the simulation-length prompt.
MaxLen == 3
\* Most calls of write_mdp_files in the writer-only specification.
MaxCalls == 3

\* Significand width of a Python float (IEEE-754 binary64).
MantBits == 53

\* -------------------------------------------------- unbounded naturals
\* A Python int or a significand is a little-endian sequence of limbs in
\* base 2^LimbBits without high zero limbs; <<>> is zero.
LimbBits == 10

Base == 2 ^ LimbBits

Digits == <<"0", "1", "2", "3", "4", "5", "6", "7", "8", "9">>

IsDigit(c) == \E i \in 1..10 : Digits[i] = c

DigitVal(c) == (CHOOSE i \in 1..10 : Digits[i] = c) - 1

RECURSIVE NatToLimbs(_)
NatToLimbs(n) == IF n = 0 THEN <<>> ELSE <<n % Base>> \o NatToLimbs(n \div Base)

\* b * c + carry, for c and carry below 2^20
RECURSIVE MulAdd(_, _, _)
MulAdd(b, c, carry) ==
    IF b = <<>> THEN NatToLimbs(carry)
    ELSE LET t == b[1] * c + carry
         IN  <<t % Base>> \o MulAdd(Tail(b), c, t \div Base)

\* [q, r] with b = q * c + r, 0 <= r < c, for c below 2^20
RECURSIVE DivRem(_, _)
DivRem(b, c) ==
    IF b = <<>> THEN [q |-> <<>>, r |-> 0]
    ELSE LET hi == DivRem(Tail(b), c)
             t  == hi.r * Base + b[1]
         IN  [q |-> IF hi.q = <<>> /\ t < c THEN <<>> ELSE <<t \div c>> \o hi.q,
              r |-> t % c]

RECURSIVE Inc(_)
Inc(b) == IF b = <<>> THEN <<1>>
          ELSE IF b[1] < Base - 1 THEN <<b[1] + 1>> \o Tail(b)
          ELSE <<0>> \o Inc(Tail(b))

\* number of bits of a limb
RECURSIVE LimbLen(_)
LimbLen(n) == IF n = 0 THEN 0 ELSE 1 + LimbLen(n \div 2)

BitLen(b) == IF b = <<>> THEN 0 ELSE LimbBits * (Len(b) - 1) + LimbLen(b[Len(b)])

\* bit i of b, the lowest being bit 1
Bit(b, i) == (b[((i - 1) \div LimbBits) + 1] \div (2 ^ ((i - 1) % LimbBits))) % 2

\* b * 2^k
ShiftLeft(b, k) ==
    IF b = <<>> THEN <<>>
    ELSE [i \in 1..(k \div LimbBits) |-> 0] \o MulAdd(b, 2 ^ (k % LimbBits), 0)

\* b \div 2^k
ShiftRight(b, k) ==
    IF k >= BitLen(b) THEN <<>>
    ELSE DivRem(SubSeq(b, (k \div LimbBits) + 1, Len(b)), 2 ^ (k % LimbBits)).q

\* decimal digits of a natural, as str(int) prints them
RECURSIVE LimbsToDec(_)
LimbsToDec(b) ==
    LET d == DivRem(b, 10)
    IN  IF d.q = <<>> THEN <<Digits[d.r + 1]>>
        ELSE LimbsToDec(d.q) \o <<Digits[d.r + 1]>>

\* ------------------------------------------------------- Python floats
\* Round the natural b (followed by a nonzero tail iff sticky) scaled by 2^e
\* to the nearest double, ties to even.
RoundToDouble(b, e, sticky) ==
    IF b = <<>> THEN [m |-> <<>>, e |-> 0]
    ELSE IF BitLen(b) <= MantBits
    THEN [m |-> ShiftLeft(b, MantBits - BitLen(b)), e |-> e - (MantBits - BitLen(b))]
    ELSE LET k    == BitLen(b) - MantBits
             q    == ShiftRight(b, k)
             half == Bit(b, k) = 1
             rest == sticky \/ \E i \in 1..(k - 1) : Bit(b, i) = 1
             up   == half /\ (rest \/ Bit(q, 1) = 1)
             r    == IF up THEN Inc(q) ELSE q
         IN  IF BitLen(r) > MantBits
             THEN [m |-> ShiftRight(r, 1), e |-> e + k + 1]
             ELSE [m |-> r, e |-> e + k]

\* float(s) accepts, over the characters modelled, digits with at most one
\* decimal point and at least one digit; anything else raises ValueError.
IsFloatText(s) ==
    /\ \A i \in 1..Len(s) : IsDigit(s[i]) \/ s[i] = "."
    /\ Cardinality({i \in 1..Len(s) : s[i] = "."}) <= 1
    /\ \E i \in 1..Len(s) : IsDigit(s[i])

\* number of digits after the decimal point
FracLen(s) ==
    IF \E i \in 1..Len(s) : s[i] = "."
    THEN Len(s) - (CHOOSE i \in 1..Len(s) : s[i] = ".")
    ELSE 0

RECURSIVE DecToLimbs(_)
DecToLimbs(ds) ==
    IF ds = <<>> THEN <<>>
    ELSE MulAdd(DecToLimbs(SubSeq(ds, 1, Len(ds) - 1)), 10, DigitVal(ds[Len(ds)]))

\* b \div 10^d, with the flag "the division left a remainder"
RECURSIVE DivPow10(_, _)
DivPow10(b, d) ==
    IF d = 0 THEN [q |-> b, sticky |-> FALSE]
    ELSE LET one  == DivRem(b, 10)
             rest == DivPow10(one.q, d - 1)
         IN  [q |-> rest.q, sticky |-> rest.sticky \/ one.r # 0]

\* float(s) for a text s that IsFloatText: the double nearest to the decimal
PyFloatText(s) ==
    LET n     == DecToLimbs(SelectSeq(s, IsDigit))
        d     == FracLen(s)
        scale == IF d = 0 THEN 0 ELSE MantBits + 4 * d + 3
        quot  == DivPow10(ShiftLeft(n, scale), d)
    IN  RoundToDouble(quot.q, 0 - scale, quot.sticky)

\* float(n) for a Python int n
PyFloatInt(n) == RoundToDouble(NatToLimbs(n), 0, FALSE)

\* x * c for a float x and a Python int c (converted to float exactly)
FloatMulInt(x, c) == RoundToDouble(MulAdd(x.m, c, 0), x.e, FALSE)

\* int(x): truncation toward zero
PyInt(x) == IF x.e >= 0 THEN ShiftLeft(x.m, x.e) ELSE ShiftRight(x.m, 0 - x.e)

\* ------------------------------------------------------ Python values
\* A value is [int |-> n] (a Python int), [str |-> s] (text) or
\* [float |-> x] (a double).
IsInt(v) == "int" \in DOMAIN v

IsStr(v) == "str" \in DOMAIN v

\* the answer is kept as typed, also when it is empty
OrDefault_keep(s, d) == [str |-> s]

\* input(...) or d : an empty answer is falsy and yields the int default
OrDefault(s, d) == IF s = <<>> THEN [int |-> d] ELSE [str |-> s]

\* f"{v}" for an int or a str
Str(v) == IF IsInt(v) THEN LimbsToDec(NatToLimbs(v.int)) ELSE v.str

\* float(v) raises ValueError
FloatRaises(v) == IsStr(v) /\ ~IsFloatText(v.str)

\* float(v) for an int or a str
PyFloat(v) == [float |-> IF IsInt(v) THEN PyFloatInt(v.int) ELSE PyFloatText(v.str)]

\* s.strip()
RECURSIVE Strip(_)
Strip(s) == IF s = <<>> THEN s
            ELSE IF s[1] = " " THEN Strip(Tail(s))
            ELSE IF s[Len(s)] = " " THEN Strip(SubSeq(s, 1, Len(s) - 1))
            ELSE s

\* int(ns_length * 1000000)
TotalSteps(ns_length) ==
    IF IsInt(ns_length) THEN MulAdd(NatToLimbs(ns_length.int), 1000000, 0)
    ELSE PyInt(FloatMulInt(ns_length.float, 1000000))

\* --------------------------------------------------- the .mdp templates
\* A file is a sequence of lines [key, val]; val is the sequence of the
\* whitespace-separated words of the value, each word a text.
K(k, v) == [key |-> k, val |-> << <<v>> >>]

K2(k, a, b) == [key |-> k, val |-> <<a, b>>]

IonsName == <<"ions", ".mdp">>
MinimName == <<"minim", ".mdp">>
NvtName == <<"nvt", ".mdp">>
NptName == <<"npt", ".mdp">>
MdName == <<"md", ".mdp">>

MdpNames == {IonsName, MinimName, NvtName, NptName, MdName}

IonsMdp == << K("integrator", "steep") >>

MinimMdp ==
    << K("integrator", "steep"), K("emtol", "1000.0"), K("emstep", "0.01"),
       K("nsteps", "50000"), K("nstlist", "1"), K("cutoff-scheme", "Verlet"),
       K("ns_type", "grid"), K("coulombtype", "PME"), K("rcoulomb", "1.0"),
       K("rvdw", "1.0"), K("pbc", "xyz") >>

\* the second coupling group kept at the default temperature
NvtMdp_oneT(temp) ==
    << K("define", "-DPOSRES"), K("integrator", "md"), K("dt", "0.001"),
       K("nsteps", "50000"), K("nstxout", "500"), K("tcoupl", "v-rescale"),
       K2("tc-grps", <<"Protein">>, <<"Non-Protein">>),
       K2("tau_t", <<"0.1">>, <<"0.1">>),
       K2("ref_t", Str(temp), Str([int |-> 298])),
       K("pcoupl", "no"), K("pbc", "xyz") >>

NvtMdp(temp) ==
    << K("define", "-DPOSRES"), K("integrator", "md"), K("dt", "0.001"),
       K("nsteps", "50000"), K("nstxout", "500"), K("tcoupl", "v-rescale"),
       K2("tc-grps", <<"Protein">>, <<"Non-Protein">>),
       K2("tau_t", <<"0.1">>, <<"0.1">>),
       K2("ref_t", Str(temp), Str(temp)),
       K("pcoupl", "no"), K("pbc", "xyz") >>

\* a pressure-coupled stage whose temperature is not substituted
NptMdp_noT(temp) ==
    << K("define", "-DPOSRES"), K("integrator", "md"), K("dt", "0.001"),
       K("nsteps", "50000"), K("nstxout", "500"), K("tcoupl", "v-rescale"),
       K2("tc-grps", <<"Protein">>, <<"Non-Protein">>),
       K2("tau_t", <<"0.1">>, <<"0.1">>),
       K2("ref_t", <<"2", "9", "8">>, <<"2", "9", "8">>),
       K("pcoupl", "c-rescale"), K("pcoupltype", "isotropic"),
       K("tau_p", "2.0"), K("compressibility", "4.5e-5"), K("ref_p", "1.0"),
       K("refcoord_scaling", "com"), K("coulombtype", "PME"),
       K("rcoulomb", "1.0"), K("fourierspacing", "0.12"),
       K("pme_order", "4"), K("constraints", "h-bonds") >>

NptMdp(temp) ==
    << K("define", "-DPOSRES"), K("integrator", "md"), K("dt", "0.001"),
       K("nsteps", "50000"), K("nstxout", "500"), K("tcoupl", "v-rescale"),
       K2("tc-grps", <<"Protein">>, <<"Non-Protein">>),
       K2("tau_t", <<"0.1">>, <<"0.1">>),
       K2("ref_t", Str(temp), Str(temp)),
       K("pcoupl", "c-rescale"), K("pcoupltype", "isotropic"),
       K("tau_p", "2.0"), K("compressibility", "4.5e-5"), K("ref_p", "1.0"),
       K("refcoord_scaling", "com"), K("coulombtype", "PME"),
       K("rcoulomb", "1.0"), K("fourierspacing", "0.12"),
       K("pme_order", "4"), K("constraints", "h-bonds") >>

\* the save interval as a thousandth of the step count
MdMdp_scaled(temp, total_steps) ==
    << K("integrator", "md"), K("dt", "0.001"),
       [key |-> "nsteps", val |-> <<LimbsToDec(total_steps)>>],
       [key |-> "nstxout-compressed",
        val |-> <<LimbsToDec(DivRem(total_steps, 1000).q)>>],
       K("tcoupl", "v-rescale"),
       K2("tc-grps", <<"Protein">>, <<"Non-Protein">>),
       K2("tau_t", <<"0.1">>, <<"0.1">>),
       K2("ref_t", Str(temp), Str(temp)),
       K("pcoupl", "c-rescale"), K("pcoupltype", "isotropic"),
       K("tau_p", "2.0"), K("ref_p", "1.0"), K("compressibility", "4.5e-5"),
       K("coulombtype", "PME"), K("rcoulomb", "1.0"),
       K("fourierspacing", "0.12"), K("pme_order", "4"),
       K("vdw-type", "Cut-off"), K("rvdw", "1.0"),
       K("compressed-x-grps", "Protein") >>

MdMdp(temp, total_steps) ==
    << K("integrator", "md"), K("dt", "0.001"),
       [key |-> "nsteps", val |-> <<LimbsToDec(total_steps)>>],
       K("nstxout-compressed", "5000"),
       K("tcoupl", "v-rescale"),
       K2("tc-grps", <<"Protein">>, <<"Non-Protein">>),
       K2("tau_t", <<"0.1">>, <<"0.1">>),
       K2("ref_t", Str(temp), Str(temp)),
       K("pcoupl", "c-rescale"), K("pcoupltype", "isotropic"),
       K("tau_p", "2.0"), K("ref_p", "1.0"), K("compressibility", "4.5e-5"),
       K("coulombtype", "PME"), K("rcoulomb", "1.0"),
       K("fourierspacing", "0.12"), K("pme_order", "4"),
       K("vdw-type", "Cut-off"), K("rvdw", "1.0"),
       K("compressed-x-grps", "Protein") >>

mdp_content(temp, total_steps) ==
    [f \in MdpNames |->
        IF f = IonsName THEN IonsMdp
        ELSE IF f = MinimName THEN MinimMdp
        ELSE IF f = NvtName THEN NvtMdp(temp)
        ELSE IF f = NptName THEN NptMdp(temp)
        ELSE MdMdp(temp, total_steps)]

\* open(filename, "a"): what the file holds is kept
OpenA(d, f) == IF f \in DOMAIN d THEN d[f] ELSE <<>>

\* open(filename, "w"): the file is created or truncated
OpenW(d, f) == <<>>

\* The working directory after write_mdp_files(temp, ns_length) ran in d.
write_mdp_files(d, temp, ns_length) ==
    LET total_steps == TotalSteps(ns_length)
        content     == mdp_content(temp, total_steps)
    IN  [f \in (DOMAIN d) \cup (DOMAIN content) |->
            IF f \in DOMAIN content THEN OpenW(d, f) \o content[f] ELSE d[f]]

\* ------------------------------------------------------------- state
VARIABLES
    pc,          \* position of the script
    temp_in,     \* the answer typed at the temperature prompt
    ns_in,       \* the answer typed at the length prompt
    user_temp,   \* user_temp of the script
    user_ns,     \* user_ns of the script
    pdb_name,    \* pdb_name of the script
    step,        \* number of run_step calls that returned
    dir,         \* working directory: file name -> content
    dir0,        \* the working directory the script was started in
    produced,    \* names written so far by this run
    invoked,     \* the external commands invoked so far, with their exit status
    console,     \* what the script has printed
    exit_code,   \* exit status of the script, -1 while it runs
    calls        \* writer-only specification: the calls of write_mdp_files made,
                 \* each with its arguments, its total_steps and the files it left

vars == <<pc, temp_in, ns_in, user_temp, user_ns, pdb_name, step, dir, dir0,
          produced, invoked, console, exit_code, calls>>

Unset == [unset |-> TRUE]

\* ------------------------------------------------------ the command lines
A(flag, file) == [flag |-> flag, file |-> file]

\* f"md_{user_ns}ns.tpr"
ProdTpr == <<"md_">> \o Str(user_ns) \o <<"ns", ".tpr">>

\* a production run named after the default length whatever was typed
ProdDeffnm_fixed == <<"md_", "5", "0", "ns">>

\* f"md_{user_ns}ns"
ProdDeffnm == <<"md_">> \o Str(user_ns) \o <<"ns">>

TopolTop == <<"topol", ".top">>

\* The run_step calls of the script body, in program order.
PipelineBody ==
    << [tool |-> "pdb2gmx", opts |-> "-water tips3p -ignh", input_val |-> "8",
        args |-> << A("-f", pdb_name \o <<".pdb">>),
                    A("-o", <<"protein_processed", ".gro">>) >>],
       [tool |-> "editconf", opts |-> "-c -d 1.0 -bt cubic", input_val |-> "None",
        args |-> << A("-f", <<"protein_processed", ".gro">>),
                    A("-o", <<"box", ".gro">>) >>],
       [tool |-> "solvate", opts |-> "", input_val |-> "None",
        args |-> << A("-cp", <<"box", ".gro">>), A("-cs", <<"spc216", ".gro">>),
                    A("-o", <<"solvated", ".gro">>), A("-p", TopolTop) >>],
       [tool |-> "grompp", opts |-> "", input_val |-> "None",
        args |-> << A("-f", IonsName), A("-c", <<"solvated", ".gro">>),
                    A("-p", TopolTop), A("-o", <<"ions", ".tpr">>) >>],
       [tool |-> "genion", opts |-> "-pname NA -nname CL -neutral", input_val |-> "13",
        args |-> << A("-s", <<"ions", ".tpr">>), A("-o", <<"ions", ".gro">>),
                    A("-p", TopolTop) >>],
       [tool |-> "grompp", opts |-> "", input_val |-> "None",
        args |-> << A("-f", MinimName), A("-c", <<"ions", ".gro">>),
                    A("-p", TopolTop), A("-o", <<"em", ".tpr">>) >>],
       [tool |-> "mdrun", opts |-> "-v", input_val |-> "None",
        args |-> << A("-deffnm", <<"em">>) >>],
       [tool |-> "grompp", opts |-> "", input_val |-> "None",
        args |-> << A("-f", NvtName), A("-c", <<"em", ".gro">>),
                    A("-r", <<"em", ".gro">>), A("-p", TopolTop),
                    A("-o", <<"nvt", ".tpr">>) >>],
       [tool |-> "mdrun", opts |-> "-v", input_val |-> "None",
        args |-> << A("-deffnm", <<"nvt">>) >>],
       [tool |-> "grompp", opts |-> "", input_val |-> "None",
        args |-> << A("-f", NptName), A("-c", <<"nvt", ".gro">>),
                    A("-r", <<"nvt", ".gro">>), A("-t", <<"nvt", ".cpt">>),
                    A("-p", TopolTop), A("-o", <<"npt", ".tpr">>) >>],
       [tool |-> "mdrun", opts |-> "-v", input_val |-> "None",
        args |-> << A("-deffnm", <<"npt">>) >>],
       [tool |-> "grompp", opts |-> "", input_val |-> "None",
        args |-> << A("-f", MdName), A("-c", <<"npt", ".gro">>),
                    A("-t", <<"npt", ".cpt">>), A("-p", TopolTop),
                    A("-o", ProdTpr) >>],
       [tool |-> "mdrun", opts |-> "-v", input_val |-> "None",
        args |-> << A("-deffnm", ProdDeffnm) >>] >>

\* a pipeline that stops before the production run
Commands_short == SubSeq(PipelineBody, 1, Len(PipelineBody) - 1)

\* The commands the script runs until it completes.
Commands == PipelineBody

\* ------------------------------------------- the engine's file conventions
\* The files a successful command leaves: its -o file, the topology that
\* pdb2gmx writes under its default name, and for mdrun -deffnm X the final
\* structure, checkpoint, energy and log files named after X.
Outputs(cmd) ==
    {cmd.args[i].file : i \in {j \in 1..Len(cmd.args) : cmd.args[j].flag = "-o"}}
    \cup (IF cmd.tool = "pdb2gmx" THEN {TopolTop} ELSE {})
    \cup {cmd.args[i].file \o <<ext>> :
            i \in {j \in 1..Len(cmd.args) : cmd.args[j].flag = "-deffnm"},
            ext \in {".gro", ".cpt", ".edr", ".log"}}

EngineData == << K("engine", "data") >>

\* ------------------------------------------------------------ inputs
NsAlphabet == {"0", "1", "4", "5", ".", "a"}

\* texts typed at the length prompt
NsInputs == UNION {[1..n -> NsAlphabet] : n \in 0..MaxLen}

\* texts typed at the temperature prompt
TempInputs == {<<>>, <<"3", "1", "0">>, <<"w", "a", "r", "m">>}

\* texts typed at the structure-name prompt
PdbInputs == {<<"a", "b", "c">>, <<" ", "1", "a", "k", "i", " ">>}

\* exit statuses of an external command
ExitCodes == {0, 1}

\* A working directory that an earlier run of the script left its files in.
StaleDir == write_mdp_files(<<>>, [str |-> <<"2", "7", "3">>], PyFloat([int |-> 1]))

\* ------------------------------------------------------------ the script
Init ==
    /\ pc = "input_temp"
    /\ temp_in = Unset /\ ns_in = Unset
    /\ user_temp = Unset /\ user_ns = Unset /\ pdb_name = <<>>
    /\ step = 0
    /\ dir0 \in {<<>>, StaleDir}
    /\ dir = dir0
    /\ produced = {}
    /\ invoked = <<>>
    /\ console = <<>>
    /\ exit_code = -1
    /\ calls = <<>>

\* user_temp = input("Enter simulation temperature (default 298): ") or 298
InputTemp ==
    /\ pc = "input_temp"
    /\ \E s \in TempInputs :
          /\ temp_in' = [str |-> s]
          /\ user_temp' = OrDefault(s, 298)
    /\ pc' = "input_ns"
    /\ UNCHANGED <<ns_in, user_ns, pdb_name, step, dir, dir0, produced, invoked,
                   console, exit_code, calls>>

\* user_ns = input("Enter simulation length in ns (default 50): ") or 50
InputNs ==
    /\ pc = "input_ns"
    /\ \E s \in NsInputs :
          /\ ns_in' = [str |-> s]
          /\ user_ns' = OrDefault(s, 50)
    /\ pc' = "write_mdp"
    /\ UNCHANGED <<temp_in, user_temp, pdb_name, step, dir, dir0, produced,
                   invoked, console, exit_code, calls>>

\* the files are written with the default length before the answer is parsed
WriteStep_late ==
    /\ pc = "write_mdp"
    /\ IF FloatRaises(user_ns)
       THEN /\ dir' = write_mdp_files(dir, user_temp, [int |-> 50])
            /\ produced' = MdpNames
            /\ console' = console \o <<"Successfully generated all .mdp files.", "Traceback">>
            /\ exit_code' = 1
            /\ pc' = "crashed"
       ELSE /\ dir' = write_mdp_files(dir, user_temp, PyFloat(user_ns))
            /\ produced' = MdpNames
            /\ console' = Append(console, "Successfully generated all .mdp files.")
            /\ exit_code' = exit_code
            /\ pc' = "input_pdb"
    /\ UNCHANGED <<temp_in, ns_in, user_temp, user_ns, pdb_name, step, dir0,
                   invoked, calls>>

\* write_mdp_files(temp=user_temp, ns_length=float(user_ns)): the argument is
\* evaluated first, and a ValueError it raises ends the script uncaught.
WriteStep ==
    /\ pc = "write_mdp"
    /\ IF FloatRaises(user_ns)
       THEN /\ console' = Append(console, "Traceback")
            /\ exit_code' = 1
            /\ pc' = "crashed"
            /\ UNCHANGED <<dir, produced>>
       ELSE /\ dir' = write_mdp_files(dir, user_temp, PyFloat(user_ns))
            /\ produced' = MdpNames
            /\ console' = Append(console, "Successfully generated all .mdp files.")
            /\ exit_code' = exit_code
            /\ pc' = "input_pdb"
    /\ UNCHANGED <<temp_in, ns_in, user_temp, user_ns, pdb_name, step, dir0,
                   invoked, calls>>

\* pdb_name = input("PDB file name (without .pdb): ").strip()
InputPdb ==
    /\ pc = "input_pdb"
    /\ \E s \in PdbInputs : pdb_name' = Strip(s)
    /\ pc' = "run"
    /\ UNCHANGED <<temp_in, ns_in, user_temp, user_ns, step, dir, dir0, produced,
                   invoked, console, exit_code, calls>>

\* a runner that reports the failure and returns to its caller
run_step_noexit(command, rc) ==
    /\ invoked' = Append(invoked, [cmd |-> command, rc |-> rc, avail |-> produced])
    /\ IF rc = 0
       THEN /\ dir' = [f \in (DOMAIN dir) \cup Outputs(command) |->
                          IF f \in Outputs(command) THEN EngineData ELSE dir[f]]
            /\ produced' = produced \cup Outputs(command)
            /\ console' = console
       ELSE /\ console' = Append(console, "Error during execution")
            /\ UNCHANGED <<dir, produced>>
    /\ step' = step + 1
    /\ pc' = IF step' = Len(Commands) THEN "complete" ELSE "run"
    /\ exit_code' = exit_code

\* run_step(command, input_val): the command runs to its end with exit
\* status rc; a non-zero status is reported and ends the script with exit(1).
run_step(command, rc) ==
    /\ invoked' = Append(invoked, [cmd |-> command, rc |-> rc, avail |-> produced])
    /\ IF rc = 0
       THEN /\ dir' = [f \in (DOMAIN dir) \cup Outputs(command) |->
                          IF f \in Outputs(command) THEN EngineData ELSE dir[f]]
            /\ produced' = produced \cup Outputs(command)
            /\ step' = step + 1
            /\ pc' = IF step' = Len(Commands) THEN "complete" ELSE "run"
            /\ UNCHANGED <<console, exit_code>>
       ELSE /\ console' = Append(console, "Error during execution")
            /\ exit_code' = 1
            /\ pc' = "exited"
            /\ UNCHANGED <<dir, produced, step>>

\* the next run_step call of the script body
RunNext ==
    /\ pc = "run"
    /\ \E rc \in ExitCodes : run_step(Commands[step + 1], rc)
    /\ UNCHANGED <<temp_in, ns_in, user_temp, user_ns, pdb_name, dir0, calls>>

\* print(f"\nSimulation complete for {user_ns}ns at {user_temp}K!") and the
\* end of the script
Complete ==
    /\ pc = "complete"
    /\ console' = Append(console, "Simulation complete")
    /\ exit_code' = 0
    /\ pc' = "done"
    /\ UNCHANGED <<temp_in, ns_in, user_temp, user_ns, pdb_name, step, dir, dir0,
                   produced, invoked, calls>>

Next == InputTemp \/ InputNs \/ WriteStep \/ InputPdb \/ RunNext \/ Complete

Spec == Init /\ [][Next]_vars

\* ------------------------------------- the template writer on its own
\* write_mdp_files called any number of times in one working directory.
WriterTemps == {[int |-> 298], [str |-> <<"3", "1", "0">>], [str |-> <<"w", "a", "r", "m">>]}

WriterLengths ==
    {[int |-> 50], PyFloat([str |-> <<"5", "0">>]), PyFloat([str |-> <<"0", ".", "5">>])}

WriterInit ==
    /\ pc = "writer"
    /\ temp_in = Unset /\ ns_in = Unset
    /\ user_temp = Unset /\ user_ns = Unset /\ pdb_name = <<>>
    /\ step = 0
    /\ dir0 = <<>>
    /\ dir = <<>>
    /\ produced = {}
    /\ invoked = <<>>
    /\ console = <<>>
    /\ exit_code = -1
    /\ calls = <<>>

WriterCall ==
    /\ Len(calls) < MaxCalls
    /\ \E t \in WriterTemps, l \in WriterLengths :
          /\ dir' = write_mdp_files(dir, t, l)
          /\ calls' = Append(calls, [temp |-> t, ns_length |-> l,
                                     total_steps |-> TotalSteps(l), files |-> dir'])
    /\ produced' = MdpNames
    /\ console' = Append(console, "Successfully generated all .mdp files.")
    /\ UNCHANGED <<pc, temp_in, ns_in, user_temp, user_ns, pdb_name, step, dir0,
                   invoked, exit_code>>

WriterNext == WriterCall

SpecWriter == WriterInit /\ [][WriterNext]_vars

\* ================================================================ claims
\* the script is past its write_mdp_files call
Written == pc \in {"input_pdb", "run", "complete", "done", "exited"}

\* the value words of the line of a file that has the key
ValOf(content, key) ==
    content[CHOOSE i \in 1..Len(content) : content[i].key = key].val

HasKey(content, key) == \E i \in 1..Len(content) : content[i].key = key

Printed(msg) == \E i \in 1..Len(console) : console[i] = msg

T298 == <<"2", "9", "8">>

\* ---- C1
\* C1 (fail-stop): whenever the k-th external command has exited non-zero, it
\* is the last command invoked, the completion message has not been printed
\* and the script has terminated with exit code 1.
C1_FailStop ==
    \A k \in 1..Len(invoked) :
        invoked[k].rc # 0 =>
            /\ k = Len(invoked)
            /\ pc = "exited"
            /\ exit_code = 1
            /\ ~Printed("Simulation complete")
            /\ Printed("Error during execution")

\* the seventh command (the minimisation run) has failed
C1_Witness == Len(invoked) = 7 /\ invoked[7].rc = 1 /\ pc = "exited"

\* ---- C2
PipelineTools ==
    <<"pdb2gmx", "editconf", "solvate", "grompp", "genion", "grompp", "mdrun",
      "grompp", "mdrun", "grompp", "mdrun", "grompp", "mdrun">>

\* C2 as claimed: a run that completes has invoked exactly twelve commands
\* and ends with exit code zero.
C2_TwelveCommands == pc = "done" => (Len(invoked) = 12 /\ exit_code = 0)

\* C2 amended: a run in which every command succeeds invokes exactly thirteen
\* commands in the fixed order conversion, box, solvation, ion setup (two),
\* minimisation, NVT, NPT, production (two each), each one started with the
\* outputs of the previous one already written, and ends with exit code 0;
\* and only such a run reaches the end of the script.
C2_ThirteenCommands ==
    /\ pc \in {"complete", "done"} =>
          /\ Len(invoked) = 13
          /\ \A k \in 1..13 : invoked[k].cmd.tool = PipelineTools[k] /\ invoked[k].rc = 0
          /\ \A k \in 1..12 : Outputs(invoked[k].cmd) \subseteq invoked[k + 1].avail
          /\ invoked[4].cmd.args[1].file = IonsName
          /\ invoked[6].cmd.args[1].file = MinimName
          /\ invoked[8].cmd.args[1].file = NvtName
          /\ invoked[10].cmd.args[1].file = NptName
          /\ invoked[12].cmd.args[1].file = MdName
    /\ pc = "done" => exit_code = 0
    /\ (Len(invoked) = 13 /\ invoked[13].rc = 0) => pc \in {"complete", "done"}

C2_Witness == pc = "done" /\ Len(invoked) = 13 /\ exit_code = 0

\* ---- C3
RECURSIVE StripZeros(_)
StripZeros(ds) == IF Len(ds) > 1 /\ ds[1] = "0" THEN StripZeros(Tail(ds)) ELSE ds

\* the decimal s times 1,000,000, for at most six digits after the point
ExactMillionTimes(s) ==
    StripZeros(SelectSeq(s, IsDigit) \o [i \in 1..(6 - FracLen(s)) |-> "0"])

\* C3: once the files are written, nsteps of md.mdp is the length typed times
\* 1,000,000, exactly.
C3_ExactSteps ==
    (Written /\ ns_in.str # <<>>) =>
        ValOf(dir[MdName], "nsteps") = <<ExactMillionTimes(ns_in.str)>>

\* ---- C4
\* C4: for a temperature T typed at the prompt, every generated file with a
\* ref_t line has exactly the two values T and T on it, and nvt.mdp, npt.mdp
\* and md.mdp have such a line, whatever the length is.
C4_RefT ==
    (Written /\ temp_in.str # <<>>) =>
        /\ \A f \in MdpNames : \A i \in 1..Len(dir[f]) :
              dir[f][i].key = "ref_t" => dir[f][i].val = <<temp_in.str, temp_in.str>>
        /\ \A f \in {NvtName, NptName, MdName} : HasKey(dir[f], "ref_t")

C4_Witness ==
    /\ Written /\ temp_in.str = <<"3", "1", "0">> /\ ns_in.str = <<"0", ".", "5">>
    /\ ValOf(dir[NvtName], "ref_t") = << <<"3", "1", "0">>, <<"3", "1", "0">> >>

\* ---- C5
Differing(i, j) == {f \in MdpNames : calls[i].files[f] # calls[j].files[f]}

SameTemp(i, j) == Str(calls[i].temp) = Str(calls[j].temp)

SameSteps(i, j) == calls[i].total_steps = calls[j].total_steps

\* C5 as claimed: between two calls that differ in temperature only, exactly
\* two files differ.
C5_TwoFiles ==
    \A i, j \in 1..Len(calls) :
        (~SameTemp(i, j) /\ SameSteps(i, j)) => Cardinality(Differing(i, j)) = 2

\* C5 amended: exactly three files (nvt.mdp, npt.mdp, md.mdp) depend on the
\* temperature, exactly one (md.mdp) on the step count, and the files of any
\* two calls agree line by line except on ref_t and on nsteps of md.mdp.
C5_ThreeFiles ==
    \A i, j \in 1..Len(calls) :
        /\ (~SameTemp(i, j) /\ SameSteps(i, j)) => Differing(i, j) = {NvtName, NptName, MdName}
        /\ (SameTemp(i, j) /\ ~SameSteps(i, j)) => Differing(i, j) = {MdName}
        /\ \A f \in MdpNames :
              /\ Len(calls[i].files[f]) = Len(calls[j].files[f])
              /\ \A n \in 1..Len(calls[i].files[f]) :
                    /\ calls[i].files[f][n].key = calls[j].files[f][n].key
                    /\ calls[i].files[f][n] # calls[j].files[f][n] =>
                          \/ calls[i].files[f][n].key = "ref_t"
                          \/ f = MdName /\ calls[i].files[f][n].key = "nsteps"

C5_Witness ==
    /\ Len(calls) = 2
    /\ ~SameTemp(1, 2) /\ SameSteps(1, 2)
    /\ Cardinality(Differing(1, 2)) = 3

\* ---- C6
\* C6: a blank temperature answer gives ref_t 298 298 in the three files; a
\* blank length answer gives nsteps 50000000 and the production names
\* md_50ns.tpr and md_50ns; length "50" with a blank temperature gives nsteps
\* 50000000 and ref_t 298 298 in md.mdp.
C6_Defaults ==
    Written =>
        /\ temp_in.str = <<>> =>
              \A f \in {NvtName, NptName, MdName} : ValOf(dir[f], "ref_t") = <<T298, T298>>
        /\ ns_in.str = <<>> =>
              /\ ValOf(dir[MdName], "nsteps") = << <<"5", "0", "0", "0", "0", "0", "0", "0">> >>
              /\ Len(invoked) >= 12 =>
                    invoked[12].cmd.args[5].file = <<"md_", "5", "0", "ns", ".tpr">>
              /\ Len(invoked) >= 13 =>
                    invoked[13].cmd.args[1].file = <<"md_", "5", "0", "ns">>
        /\ (ns_in.str = <<"5", "0">> /\ temp_in.str = <<>>) =>
              /\ ValOf(dir[MdName], "nsteps") = << <<"5", "0", "0", "0", "0", "0", "0", "0">> >>
              /\ ValOf(dir[MdName], "ref_t") = <<T298, T298>>

C6_Witness ==
    /\ pc = "done" /\ temp_in.str = <<>> /\ ns_in.str = <<>>
    /\ Len(invoked) = 13

\* ---- C7
MdOf(i) == calls[i].files[MdName]

\* C7 as claimed: two calls with different lengths give production files that
\* differ in nsteps and in nstxout-compressed.
C7_BothDerive ==
    \A i, j \in 1..Len(calls) :
        ~SameSteps(i, j) =>
            /\ ValOf(MdOf(i), "nsteps") # ValOf(MdOf(j), "nsteps")
            /\ ValOf(MdOf(i), "nstxout-compressed") # ValOf(MdOf(j), "nstxout-compressed")

\* C7 amended: only the step count derives from the length: calls whose
\* int(length * 1000000) differ give different nsteps, and
\* nstxout-compressed is 5000 for every length.
C7_StepsOnly ==
    /\ \A i \in 1..Len(calls) : ValOf(MdOf(i), "nstxout-compressed") = << <<"5000">> >>
    /\ \A i, j \in 1..Len(calls) :
          ~SameSteps(i, j) => ValOf(MdOf(i), "nsteps") # ValOf(MdOf(j), "nsteps")

C7_Witness ==
    /\ Len(calls) = 2 /\ ~SameSteps(1, 2)
    /\ ValOf(MdOf(1), "nstxout-compressed") = ValOf(MdOf(2), "nstxout-compressed")

\* ---- C8
SameArgs(i, j) ==
    /\ DOMAIN calls[i].temp = DOMAIN calls[j].temp
    /\ SameTemp(i, j)
    /\ DOMAIN calls[i].ns_length = DOMAIN calls[j].ns_length
    /\ IF IsInt(calls[i].ns_length)
       THEN calls[i].ns_length.int = calls[j].ns_length.int
       ELSE calls[i].ns_length.float = calls[j].ns_length.float

\* C8: two calls with the same (temperature, length) leave the same five
\* files, whatever was called before them, and the directory holds exactly
\* the five files of the last call.
C8_LastCallDecides ==
    /\ \A i, j \in 1..Len(calls) : SameArgs(i, j) => calls[i].files = calls[j].files
    /\ Len(calls) > 0 => (DOMAIN dir = MdpNames /\ dir = calls[Len(calls)].files)

\* the same call made first and again after a call with other parameters
C8_Witness ==
    /\ Len(calls) = 3
    /\ SameArgs(1, 3) /\ ~SameTemp(1, 2) /\ ~SameSteps(1, 2)

\* ---- C9
ClaimInputFlags == {"-f", "-c", "-r", "-t", "-s", "-p", "-cp"}

\* the files a command line names as inputs
NamedInputs(cmd) ==
    {cmd.args[i].file : i \in {j \in 1..Len(cmd.args) : cmd.args[j].flag \in ClaimInputFlags}}
    \cup (IF cmd.tool = "mdrun"
          THEN {cmd.args[i].file \o <<".tpr">> :
                  i \in {j \in 1..Len(cmd.args) : cmd.args[j].flag = "-deffnm"}}
          ELSE {})

\* C9 (file chaining): every file an invoked command names as an input was
\* written before the invocation by the template writer or by an earlier
\* successful command of this run, except <name>.pdb and spc216.gro.
C9_Chaining ==
    \A k \in 1..Len(invoked) :
        NamedInputs(invoked[k].cmd) \ {pdb_name \o <<".pdb">>, <<"spc216", ".gro">>}
            \subseteq invoked[k].avail

\* the production run was invoked for a typed, non-integer length
C9_Witness ==
    /\ Len(invoked) = 13 /\ ns_in.str = <<"4", ".", "1">>
    /\ <<"md_", "4", ".", "1", "ns", ".tpr">> \in invoked[13].avail

\* ---- C10
\* over the characters modelled: not a decimal number
Unparseable(s) ==
    /\ s # <<>>
    /\ \/ \E i \in 1..Len(s) : ~IsDigit(s[i]) /\ s[i] # "."
       \/ Cardinality({i \in 1..Len(s) : s[i] = "."}) > 1
       \/ \A i \in 1..Len(s) : ~IsDigit(s[i])

\* C10: with an unparseable length the script has failed with the working
\* directory as it found it, no file written, no command invoked and no
\* "Error during execution" printed; a non-numeric temperature with a good
\* length does not fail the script and stands verbatim on the ref_t lines.
C10_BadInput ==
    pc \notin {"input_temp", "input_ns", "write_mdp"} =>
        /\ Unparseable(ns_in.str) =>
              /\ pc = "crashed" /\ exit_code # 0
              /\ dir = dir0 /\ produced = {} /\ invoked = <<>>
              /\ ~Printed("Error during execution")
              /\ ~Printed("Successfully generated all .mdp files.")
        /\ (~Unparseable(ns_in.str) /\ temp_in.str = <<"w", "a", "r", "m">>) =>
              /\ pc # "crashed"
              /\ \A f \in {NvtName, NptName, MdName} :
                    ValOf(dir[f], "ref_t") = <<temp_in.str, temp_in.str>>

C10_Witness ==
    /\ pc = "crashed" /\ ns_in.str = <<"1", "a">> /\ dir0 = StaleDir
    /\ temp_in.str = <<"w", "a", "r", "m">>

====
